---- MODULE Spec2Model ----
(***************************************************************************)
(* blackflag_weekly: git history -> Slidev deck.                           *)
(*                                                                         *)
(* The model follows one CLI invocation (bin/cli.js action ->              *)
(* BlackflagWeekly.run) through commit-range selection and enrichment,     *)
(* the per-slide generate/format/validate pipeline of multiAgent.js with   *)
(* its retry loop, the legacy single-agent path, the deterministic         *)
(* renderer generateRawSlides and the write of slides.md.                  *)
(*                                                                         *)
(* JavaScript strings are sequences of one-character strings, so that      *)
(* startsWith / endsWith / includes / split / toLowerCase are computed.    *)
(***************************************************************************)
EXTENDS Integers, Sequences, FiniteSets, TLC

(***************************************************************************)
(* Bounds of the model.                                                    *)
(***************************************************************************)
\* longest git history the main specification starts from
MaxLog == 2
\* longest commit range handed to the planner in PlanSpec
MaxPlanN == 25
\* most file changes of a commit handed to categorizeCommit in ClassifySpec
MaxFiles == 2
\* longest range rendered in RawSpec
MaxRawLen == 3
\* most tokens a content is made of in SanitSpec
MaxTokens == 3
\* longest history enriched in EnrichSpec
MaxEnrichLen == 3

(***************************************************************************)
(* JavaScript string helpers.                                              *)
(***************************************************************************)
UpperChars == <<"A", "B", "C", "D", "E", "F", "G", "H", "I", "J", "K", "L", "M",
                "N", "O", "P", "Q", "R", "S", "T", "U", "V", "W", "X", "Y", "Z">>

LowerChars == <<"a", "b", "c", "d", "e", "f", "g", "h", "i", "j", "k", "l", "m",
                "n", "o", "p", "q", "r", "s", "t", "u", "v", "w", "x", "y", "z">>

LowerChar(c) ==
    IF \E i \in 1..Len(UpperChars) : UpperChars[i] = c
    THEN LowerChars[CHOOSE i \in 1..Len(UpperChars) : UpperChars[i] = c]
    ELSE c

\* String.prototype.toLowerCase
ToLowerCase(s) == [i \in 1..Len(s) |-> LowerChar(s[i])]

\* String.prototype.startsWith
StartsWith(s, p) == Len(p) <= Len(s) /\ SubSeq(s, 1, Len(p)) = p

\* String.prototype.endsWith
EndsWith(s, p) == Len(p) <= Len(s) /\ SubSeq(s, Len(s) - Len(p) + 1, Len(s)) = p

\* String.prototype.includes
Includes(s, p) == \E i \in 1..(Len(s) - Len(p) + 1) : SubSeq(s, i, i + Len(p) - 1) = p

\* String.prototype.split with a non-empty literal separator
RECURSIVE SplitFrom(_, _, _, _)
SplitFrom(s, sep, i, cur) ==
    IF i > Len(s) THEN <<cur>>
    ELSE IF i + Len(sep) - 1 <= Len(s) /\ SubSeq(s, i, i + Len(sep) - 1) = sep
         THEN <<cur>> \o SplitFrom(s, sep, i + Len(sep), <<>>)
         ELSE SplitFrom(s, sep, i + 1, Append(cur, s[i]))

Split(s, sep) == SplitFrom(s, sep, 1, <<>>)

\* Array.prototype.join
RECURSIVE Join(_, _)
Join(parts, sep) ==
    IF Len(parts) = 0 THEN <<>>
    ELSE IF Len(parts) = 1 THEN parts[1]
    ELSE parts[1] \o sep \o Join(Tail(parts), sep)

\* the characters the regular-expression class \s matches, as far as the model has them
IsSpace(c) == c \in {" ", "\t", "\n"}

(***************************************************************************)
(* String literals of the source.                                          *)
(***************************************************************************)
S_feat == <<"f", "e", "a", "t">>
S_fix == <<"f", "i", "x">>
S_docs == <<"d", "o", "c", "s">>
S_test == <<"t", "e", "s", "t">>
S_refactor == <<"r", "e", "f", "a", "c", "t", "o", "r">>
S_dotmd == <<".", "m", "d">>
S_dotjs == <<".", "j", "s">>
S_dotts == <<".", "t", "s">>
S_dotjson == <<".", "j", "s", "o", "n">>
S_dottestjs == <<".", "t", "e", "s", "t", ".", "j", "s">>
S_README == <<"R", "E", "A", "D", "M", "E">>
\* the separator '\s+' of parseFileChanges: in a JavaScript string literal \s is
\* the letter s, so the separator is the two characters s and +
S_splitSep == <<"s", "+">>

(***************************************************************************)
(* Commit classification (src/index.js).                                   *)
(***************************************************************************)
getFileType(filepath) ==
    IF EndsWith(filepath, S_dotmd) THEN "documentation"
    ELSE IF EndsWith(filepath, S_dotjs) \/ EndsWith(filepath, S_dotts) THEN "code"
    ELSE IF EndsWith(filepath, S_dotjson) THEN "configuration"
    ELSE IF EndsWith(filepath, S_dottestjs) \/ Includes(filepath, S_test) THEN "testing"
    ELSE IF Includes(filepath, S_README) THEN "documentation"
    ELSE "other"

\* line.match(/^[AMD]\s+/)
MatchesNameStatus(line) ==
    Len(line) >= 2 /\ line[1] \in {"A", "M", "D"} /\ IsSpace(line[2])

\* one name-status line -> one file change
FileChangeOfLine(line) ==
    LET parts == Split(line, S_splitSep)
        path  == Join(Tail(parts), <<" ">>)
    IN  [status |-> parts[1], file |-> path, type |-> getFileType(path)]

RECURSIVE FileChangesOfLines(_)
FileChangesOfLines(lines) ==
    IF lines = <<>> THEN <<>>
    ELSE (IF MatchesNameStatus(Head(lines)) THEN <<FileChangeOfLine(Head(lines))>> ELSE <<>>)
         \o FileChangesOfLines(Tail(lines))

parseFileChanges(showOutput) == FileChangesOfLines(Split(showOutput, <<"\n">>))

\* mutant of categorizeCommit: the file-type rules tried before the prefix rules
categorizeCommitFilesFirst(message, fileChanges) ==
    LET msg       == ToLowerCase(message)
        fileTypes == {fileChanges[i].type : i \in 1..Len(fileChanges)}
    IN  IF "testing" \in fileTypes THEN "testing"
        ELSE IF "documentation" \in fileTypes THEN "documentation"
        ELSE IF "configuration" \in fileTypes THEN "configuration"
        ELSE IF StartsWith(msg, S_feat) THEN "feature"
        ELSE IF StartsWith(msg, S_fix) THEN "bugfix"
        ELSE IF StartsWith(msg, S_docs) THEN "documentation"
        ELSE IF StartsWith(msg, S_test) THEN "testing"
        ELSE IF StartsWith(msg, S_refactor) THEN "refactoring"
        ELSE "general"

categorizeCommit(message, fileChanges) ==
    LET msg       == ToLowerCase(message)
        fileTypes == {fileChanges[i].type : i \in 1..Len(fileChanges)}
    IN  IF StartsWith(msg, S_feat) THEN "feature"
        ELSE IF StartsWith(msg, S_fix) THEN "bugfix"
        ELSE IF StartsWith(msg, S_docs) THEN "documentation"
        ELSE IF StartsWith(msg, S_test) THEN "testing"
        ELSE IF StartsWith(msg, S_refactor) THEN "refactoring"
        ELSE IF "testing" \in fileTypes THEN "testing"
        ELSE IF "documentation" \in fileTypes THEN "documentation"
        ELSE IF "configuration" \in fileTypes THEN "configuration"
        ELSE "general"

(***************************************************************************)
(* The git history the run reads.  A log entry is what simple-git returns  *)
(* for one commit, together with what `git show --name-status` and         *)
(* `git diff hash^ hash` answer for it.  The oldest commit of a history is *)
(* the root commit: it has no parent, so its diff cannot be computed.      *)
(***************************************************************************)
PoolFeat ==
    [message |-> <<"f", "e", "a", "t", ":", " ", "a", "d", "d", " ", "l", "o", "g", "i", "n">>,
     author_name |-> "ann",
     show |-> <<"A", "u", "t", "h", "o", "r", ":", " ", "a", "n", "n", "\n", "\n",
                "A", "\t", "s", "r", "c", "/", "l", "o", "g", "i", "n", ".", "j", "s", "\n">>,
     files |-> 1, insertions |-> 2, deletions |-> 0]

PoolFix ==
    [message |-> <<"f", "i", "x", ":", " ", "c", "r", "a", "s", "h", " ", "o", "n", " ",
                   "l", "o", "g", "o", "u", "t">>,
     author_name |-> "bob",
     show |-> <<"A", "u", "t", "h", "o", "r", ":", " ", "b", "o", "b", "\n", "\n",
                "M", "\t", "l", "o", "g", "o", "u", "t", ".", "t", "e", "s", "t", ".", "j", "s", "\n">>,
     files |-> 1, insertions |-> 1, deletions |-> 1]

CommitPool == {PoolFeat, PoolFix}

\* entry i (1 = head) of a history of length len built from pool entry p
LogEntry(p, i, len) ==
    [hash |-> len - i + 1, message |-> p.message, author_name |-> p.author_name,
     show |-> p.show, files |-> p.files, insertions |-> p.insertions,
     deletions |-> p.deletions, root |-> (i = len)]

\* every history of at most MaxLog commits, hashes unique, head first
Histories ==
    UNION {{[i \in 1..len |-> LogEntry(ps[i], i, len)] : ps \in [1..len -> CommitPool]}
           : len \in 0..MaxLog}

(***************************************************************************)
(* JavaScript array helpers.                                               *)
(***************************************************************************)
Min(a, b) == IF a <= b THEN a ELSE b
Max(a, b) == IF a >= b THEN a ELSE b

\* Math.ceil(a / b) for a >= 0, b > 0
CeilDiv(a, b) == (a + b - 1) \div b

\* Array.prototype.slice(start, end), 0-based, end exclusive, 0 <= start
Slice(s, start, end) ==
    LET e == Min(end, Len(s))
    IN  IF start >= e THEN <<>> ELSE SubSeq(s, start + 1, e)

\* Array.prototype.findIndex(commit => commit.hash === fromHash): 0-based, -1 when absent
findIndexByHash(commits, fromHash) ==
    IF \E i \in 1..Len(commits) : commits[i].hash = fromHash
    THEN (CHOOSE i \in 1..Len(commits) :
             /\ commits[i].hash = fromHash
             /\ \A j \in 1..(i - 1) : commits[j].hash # fromHash) - 1
    ELSE -1

(***************************************************************************)
(* getCommitsFromPoint (src/index.js).                                     *)
(***************************************************************************)
\* mutant of selectedCommits: the selected commit itself left out
selectedCommitsExclusive(commits, startIndex) == Slice(commits, 0, startIndex)

\* commits.slice(0, startIndex + 1)
selectedCommits(commits, startIndex) == Slice(commits, 0, startIndex + 1)

\* mutant of enhanceCommit: the catch branch gives up on the category as well
enhanceCommitCatchUncategorised(commit) ==
    IF commit.root
    THEN [hash |-> commit.hash, message |-> commit.message, author |-> commit.author_name,
          stats |-> [files |-> 0, insertions |-> 0, deletions |-> 0],
          fileChanges |-> <<>>,
          changeType |-> "general"]
    ELSE LET fileChanges == parseFileChanges(commit.show)
         IN  [hash |-> commit.hash, message |-> commit.message, author |-> commit.author_name,
              stats |-> [files |-> commit.files, insertions |-> commit.insertions,
                         deletions |-> commit.deletions],
              fileChanges |-> fileChanges,
              changeType |-> categorizeCommit(commit.message, fileChanges)]

\* the body of the map callback: the try branch when the diff is computed, the
\* catch branch when it is not
enhanceCommit(commit) ==
    IF commit.root
    THEN [hash |-> commit.hash, message |-> commit.message, author |-> commit.author_name,
          stats |-> [files |-> 0, insertions |-> 0, deletions |-> 0],
          fileChanges |-> <<>>,
          changeType |-> categorizeCommit(commit.message, <<>>)]
    ELSE LET fileChanges == parseFileChanges(commit.show)
         IN  [hash |-> commit.hash, message |-> commit.message, author |-> commit.author_name,
              stats |-> [files |-> commit.files, insertions |-> commit.insertions,
                         deletions |-> commit.deletions],
              fileChanges |-> fileChanges,
              changeType |-> categorizeCommit(commit.message, fileChanges)]

enhancedCommits(selected) == [i \in 1..Len(selected) |-> enhanceCommit(selected[i])]

(***************************************************************************)
(* generateRawSlides (src/index.js): the deterministic renderer.           *)
(***************************************************************************)
\* categorizeWork: category -> the commits of that category, in range order
categorizeWork(commits) ==
    [cat \in {commits[i].changeType : i \in 1..Len(commits)} |->
        SelectSeq(commits, LAMBDA c : c.changeType = cat)]

RECURSIVE SumFiles(_)
SumFiles(commits) ==
    IF commits = <<>> THEN 0 ELSE Head(commits).stats.files + SumFiles(Tail(commits))

\* mutant of rawSlidesThrows: the reduce also fails on a single category
rawSlidesThrowsOnOneCategory(commits) == Cardinality(DOMAIN categorizeWork(commits)) <= 1

\* Object.keys(workByCategory).reduce(...) without an initial value throws a
\* TypeError on an empty array
rawSlidesThrows(commits) == DOMAIN categorizeWork(commits) = {}

\* mutant of hadChallenges: one bugfix is not enough
hadChallengesTwo(workByCategory) ==
    "bugfix" \in DOMAIN workByCategory /\ Len(workByCategory["bugfix"]) > 1

\* workByCategory.bugfix?.length > 0
hadChallenges(workByCategory) ==
    "bugfix" \in DOMAIN workByCategory /\ Len(workByCategory["bugfix"]) > 0

\* workByCategory.feature?.length > 0
isFeatureDevelopment(workByCategory) ==
    "feature" \in DOMAIN workByCategory /\ Len(workByCategory["feature"]) > 0

\* the sections of the template literal, one per slide, in order
rawSections(commits) ==
    LET work == categorizeWork(commits)
    IN  <<"title", "mission", "journey">>
        \o (IF hadChallenges(work) THEN <<"challenges">> ELSE <<>>)
        \o <<"outcome", "next">>

RawSlide(commits, name) ==
    LET work == categorizeWork(commits)
    IN  [section |-> name,
         commitCount |-> Len(commits),
         focused |-> (Len(commits) = 1),
         totalFiles |-> SumFiles(commits),
         counts |-> [cat \in DOMAIN work |-> Len(work[cat])],
         nextAfterChallenges |-> hadChallenges(work),
         nextAfterFeatures |-> (isFeatureDevelopment(work) /\ ~hadChallenges(work))]

generateRawSlides(commits) ==
    IF rawSlidesThrows(commits)
    THEN [kind |-> "threw", slides |-> <<>>]
    ELSE LET secs == rawSections(commits)
         IN  [kind |-> "raw", slides |-> [i \in 1..Len(secs) |-> RawSlide(commits, secs[i])]]

(***************************************************************************)
(* The narrative planner of generateSlidesWithMultiAgent (multiAgent.js).  *)
(***************************************************************************)
\* mutant of totalSlides: floor instead of ceil
totalSlidesFloor(n) == Max(5, Min(8, n \div 3))

\* Math.max(5, Math.min(8, Math.ceil(commits.length / 3)))
totalSlides(n) == Max(5, Min(8, CeilDiv(n, 3)))

\* mutant of commitsPerSlide: floor instead of ceil
commitsPerSlideFloor(n) == n \div (totalSlides(n) - 2)

\* Math.ceil(commits.length / (totalSlides - 2))
commitsPerSlide(n) == CeilDiv(n, totalSlides(n) - 2)

\* the commits of content slide i (0-based), commits.slice(startIdx, endIdx)
contentSlice(commits, i) ==
    LET startIdx == i * commitsPerSlide(Len(commits))
        endIdx   == Min((i + 1) * commitsPerSlide(Len(commits)), Len(commits))
    IN  Slice(commits, startIdx, endIdx)

contentFocus(n, i) ==
    IF i = 0 THEN "early_development"
    ELSE IF i = totalSlides(n) - 3 THEN "recent_changes"
    ELSE "development_progress"

planSlideGroups(commits) ==
    <<[type |-> "title", commits |-> <<>>, focus |-> "introduction"]>>
    \o [k \in 1..(totalSlides(Len(commits)) - 2) |->
          [type |-> "content", commits |-> contentSlice(commits, k - 1),
           focus |-> contentFocus(Len(commits), k - 1)]]
    \o <<[type |-> "conclusion", commits |-> <<>>, focus |-> "summary"]>>

(***************************************************************************)
(* The retry loop of generateSlideWithPipeline (multiAgent.js).            *)
(***************************************************************************)
\* mutant of maxRetries: one attempt too many
maxRetriesOffByOne == 3 + 1

maxRetries == 3

\* how the while loop goes on with the attempt counter at att, when nothing was thrown
loopExit(att) == IF att < maxRetries THEN "retry" ELSE "undefined"

\* mutant of afterCatch: a thrown attempt is counted twice
afterCatchCountsTwice(att) ==
    [attempt |-> att + 2,
     exit |-> IF att + 2 = maxRetries THEN "throw" ELSE loopExit(att + 2)]

\* the catch block: attempt++, rethrow when attempt === maxRetries, else back to
\* the loop condition
afterCatch(att) ==
    [attempt |-> att + 1,
     exit |-> IF att + 1 = maxRetries THEN "throw" ELSE loopExit(att + 1)]

\* the else branch of the validation check: attempt++, and when attempt ===
\* maxRetries a throw that the enclosing try catches
afterInvalid(att) ==
    IF att + 1 = maxRetries
    THEN afterCatch(att + 1)
    ELSE [attempt |-> att + 1, exit |-> loopExit(att + 1)]

(***************************************************************************)
(* Slides of the per-slide pipeline.                                       *)
(***************************************************************************)
\* formattedResult.finalOutput of an accepted attempt
agentSlide(slideGroup, i) ==
    [kind |-> "agent", type |-> slideGroup.type, index |-> i, count |-> Len(slideGroup.commits)]

\* what generateSlideWithPipeline returns when the loop ends without a return
undefinedSlide(slideGroup, i) ==
    [kind |-> "undefined", type |-> slideGroup.type, index |-> i, count |-> 0]

\* the object literal of the orchestrator's catch block
fallbackSlide(slideGroup, i, commits) ==
    [kind |-> "fallback", type |-> slideGroup.type, index |-> i,
     count |-> IF slideGroup.type = "title" THEN Len(commits)
               ELSE IF slideGroup.type = "conclusion" THEN 0
               ELSE Len(slideGroup.commits)]

\* mutant of pushPrevious: the oldest digest is dropped one push too late
pushPreviousKeepsThree(previousSlides, slide) ==
    LET pushed == Append(previousSlides, [index |-> slide.index])
    IN  IF Len(pushed) > 3 THEN Tail(pushed) ELSE pushed

\* previousSlides.push(...); if (previousSlides.length > 2) previousSlides.shift()
pushPrevious(previousSlides, slide) ==
    LET pushed == Append(previousSlides, [index |-> slide.index])
    IN  IF Len(pushed) > 2 THEN Tail(pushed) ELSE pushed

\* convertSlideDeckToSlidev reads slide.title / slide.layout of every slide: a
\* TypeError when a slide is undefined
convertThrows(slides) == \E i \in 1..Len(slides) : slides[i].kind = "undefined"

convertSlideDeckToSlidev(slides) == [kind |-> "multi", slides |-> slides]

(***************************************************************************)
(* The single-agent path of generateAISlides (src/index.js).               *)
(***************************************************************************)
\* what run(this.slideAgent, prompt) can do: throw, or give a final output that is
\* no string, no JSON, JSON without a slides array, JSON without a title, or a
\* well-formed deck
SingleOutcomes == {"throws", "notString", "nonJson", "noSlides", "noTitle", "json"}

\* mutant of singleAgentResult: a throwing agent call is not caught
singleAgentResultNoCatch(outcome, commits) ==
    IF outcome = "json" THEN [kind |-> "single", slides |-> <<>>]
    ELSE IF outcome = "throws" THEN [kind |-> "threw", slides |-> <<>>]
    ELSE generateRawSlides(commits)

\* convertJSONToSlidev returns markup for a well-formed deck; every other outcome
\* ends in one of the two catch blocks, which return generateRawSlides
singleAgentResult(outcome, commits) ==
    IF outcome = "json"
    THEN [kind |-> "single", slides |-> <<>>]
    ELSE generateRawSlides(commits)

(***************************************************************************)
(* run() and the CLI action.                                               *)
(***************************************************************************)
\* getRecentCommits(count = 20)
recentCount == 20

\* mutant of useRawSlides: the branches of the conditional swapped
useRawSlidesInverted(opts) == ~opts.skipAi

\* this.options.skipAi ? generateRawSlides : generateAISlides
useRawSlides(opts) == opts.skipAi

\* !this.options.legacyAgent
useMultiAgent(opts) == ~opts.legacyAgent

\* mutant of rangeNotFound: the absent-commit check never fires
rangeNotFoundNever(startIndex) == startIndex < -1

\* if (startIndex === -1) throw
rangeNotFound(startIndex) == startIndex = -1

\* mutant of missingCredential: --skip-ai is not looked at
missingCredentialIgnoresSkip(opts) == ~opts.apiKey

\* if (!options.skipAi && !process.env.OPENAI_API_KEY) exit
missingCredential(opts) == ~opts.skipAi /\ ~opts.apiKey

NoContent == [kind |-> "none", slides |-> <<>>]

(***************************************************************************)
(* State.                                                                  *)
(***************************************************************************)
VARIABLES
    pc,             \* where the invocation stands: cli, run, select, range, generate,
                    \* pipeline, single, write, done; in a function-level
                    \* specification the function under study: plan, classify,
                    \* raw, sanitize, options, enrich
    exitCode,       \* -1 while running, then the process exit code
    err,            \* the error that ended the run, "none" otherwise
    opts,           \* the CLI options and the credential of the environment
    log,            \* the git history, head first
    recent,         \* recentCommits of run()
    selected,       \* hash of the commit the user picked, 0 before
    commits,        \* the enriched range returned by getCommitsFromPoint
    lastCommits,    \* this.lastCommits
    slideGroups,    \* the planned segments
    idx,            \* i of the orchestrator's for loop
    step,           \* position inside the per-slide pipeline
    attempt,        \* attempt of generateSlideWithPipeline
    slides,         \* slides of generateSlidesWithMultiAgent
    previousSlides, \* previousSlides of generateSlidesWithMultiAgent
    hist,           \* outcome of each attempt of the current segment
    genCalls,       \* content-agent calls made for the current segment
    maResult,       \* how generateSlidesWithMultiAgent ended: none, returned, threw
    agentCalled,    \* whether run(agent, ...) was called in this invocation
    rawCalls,       \* generateRawSlides calls made in this invocation
    slideContent,   \* slideContent of run()
    outFile,        \* content of slides.md, NoContent while not written
    arg,            \* function-level specifications: the arguments of the call
    ret             \* function-level specifications: what the call has returned

vars == <<pc, exitCode, err, opts, log, recent, selected, commits, lastCommits,
          slideGroups, idx, step, attempt, slides, previousSlides, hist, genCalls,
          maResult, agentCalled, rawCalls, slideContent, outFile, arg, ret>>

gitVars == <<log, recent, selected, commits, lastCommits>>
pipeVars == <<slideGroups, idx, step, attempt, slides, previousSlides, hist, genCalls, maResult>>
outVars == <<slideContent, outFile>>
fnVars == <<arg, ret>>

\* a function-level specification before the call, and the run of the CLI throughout
NoArg == [fn |-> "none"]
NoResult == [kind |-> "none"]

OptionSets == [skipAi : BOOLEAN, legacyAgent : BOOLEAN, apiKey : BOOLEAN]

\* the state every specification starts the pipeline and output variables in
Blank ==
    /\ exitCode = -1
    /\ err = "none"
    /\ recent = <<>>
    /\ selected = 0
    /\ lastCommits = <<>>
    /\ slideGroups = <<>>
    /\ idx = 0
    /\ step = "idle"
    /\ attempt = 0
    /\ slides = <<>>
    /\ previousSlides = <<>>
    /\ hist = <<>>
    /\ genCalls = 0
    /\ maResult = "none"
    /\ agentCalled = FALSE
    /\ rawCalls = 0
    /\ slideContent = NoContent
    /\ outFile = NoContent

Init ==
    /\ pc = "cli"
    /\ opts \in OptionSets
    /\ log \in Histories
    /\ commits = <<>>
    /\ arg = NoArg
    /\ ret = NoResult
    /\ Blank

\* process.exit(1) after console.error, or the catch of the CLI action
Exit1(e) ==
    /\ pc' = "done"
    /\ exitCode' = 1
    /\ err' = e

(***************************************************************************)
(* bin/cli.js: the action handler up to runBlackflagWeekly.  opts are the   *)
(* options as processPromptOptions leaves them; optionsOk is FALSE when it  *)
(* ends the process (prompt or configuration not loadable, invalid style).  *)
(***************************************************************************)
CliAction ==
    /\ pc = "cli"
    /\ \E isRepo, optionsOk \in BOOLEAN :
         IF ~isRepo THEN Exit1("notRepo")
         ELSE IF ~optionsOk THEN Exit1("options")
         ELSE IF missingCredential(opts) THEN Exit1("noKey")
         ELSE pc' = "run" /\ UNCHANGED <<exitCode, err>>
    /\ UNCHANGED <<fnVars, opts, gitVars, pipeVars, agentCalled, rawCalls, outVars>>

(***************************************************************************)
(* run(): getRecentCommits and the empty-history return.                   *)
(***************************************************************************)
GetRecentCommits ==
    /\ pc = "run"
    /\ \E readable \in BOOLEAN :
         IF ~readable THEN Exit1("history") /\ UNCHANGED recent
         ELSE /\ recent' = [i \in 1..Min(recentCount, Len(log)) |->
                               [index |-> i, hash |-> log[i].hash, message |-> log[i].message]]
              /\ IF Len(recent') = 0
                 THEN pc' = "done" /\ exitCode' = 0 /\ UNCHANGED err
                 ELSE pc' = "select" /\ UNCHANGED <<exitCode, err>>
    /\ UNCHANGED <<fnVars, opts, log, selected, commits, lastCommits, pipeVars, agentCalled,
                   rawCalls, outVars>>

\* inquirer returns one of the choices
SelectStartingCommit ==
    /\ pc = "select"
    /\ \E i \in 1..Len(recent) : selected' = recent[i].hash
    /\ pc' = "range"
    /\ UNCHANGED <<fnVars, exitCode, err, opts, log, recent, commits, lastCommits, pipeVars,
                   agentCalled, rawCalls, outVars>>

\* the repository is not the program's: between the two reads of the history the
\* newest j commits may be dropped (git reset --hard HEAD~j in another shell)
HistoryRewritten ==
    /\ pc = "range"
    /\ \E j \in 1..Len(log) : log' = SubSeq(log, j + 1, Len(log))
    /\ UNCHANGED <<fnVars, pc, exitCode, err, opts, recent, selected, commits, lastCommits,
                   pipeVars, agentCalled, rawCalls, outVars>>

(***************************************************************************)
(* getCommitsFromPoint, and run() storing the range.                       *)
(***************************************************************************)
GetCommitsFromPoint ==
    /\ pc = "range"
    /\ \E readable \in BOOLEAN :
         IF ~readable
         THEN Exit1("rangeRead") /\ UNCHANGED <<commits, lastCommits>>
         ELSE LET startIndex == findIndexByHash(log, selected)
              IN  IF rangeNotFound(startIndex)
                  THEN Exit1("notFound") /\ UNCHANGED <<commits, lastCommits>>
                  ELSE /\ commits' = enhancedCommits(selectedCommits(log, startIndex))
                       /\ lastCommits' = commits'
                       /\ pc' = "generate"
                       /\ UNCHANGED <<exitCode, err>>
    /\ UNCHANGED <<fnVars, opts, log, recent, selected, pipeVars, agentCalled, rawCalls, outVars>>

(***************************************************************************)
(* run(): the skip-AI branch.                                              *)
(***************************************************************************)
GenerateRaw ==
    /\ pc = "generate"
    /\ useRawSlides(opts)
    /\ rawCalls' = rawCalls + 1
    /\ LET deck == generateRawSlides(commits)
       IN  IF deck.kind = "threw"
           THEN Exit1("generate") /\ UNCHANGED slideContent
           ELSE slideContent' = deck /\ pc' = "write" /\ UNCHANGED <<exitCode, err>>
    /\ UNCHANGED <<fnVars, opts, gitVars, pipeVars, agentCalled, outFile>>

(***************************************************************************)
(* generateAISlides up to the first capability call.                       *)
(***************************************************************************)
GenerateAI ==
    /\ pc = "generate"
    /\ ~useRawSlides(opts)
    /\ lastCommits' = commits
    /\ IF useMultiAgent(opts)
       THEN /\ pc' = "pipeline"
            /\ slideGroups' = planSlideGroups(commits)
            /\ idx' = 0
            /\ slides' = <<>>
            /\ previousSlides' = <<>>
            /\ step' = "loop"
       ELSE /\ pc' = "single"
            /\ UNCHANGED <<slideGroups, idx, slides, previousSlides, step>>
    /\ UNCHANGED <<fnVars, exitCode, err, opts, log, recent, selected, commits, attempt, hist,
                   genCalls, maResult, agentCalled, rawCalls, outVars>>

(***************************************************************************)
(* generateSlidesWithMultiAgent: the for loop over the segments, and       *)
(* generateSlideWithPipeline inside it.                                    *)
(*   step = loop       at the loop condition of the for loop               *)
(*          gen        about to call run(slideContentAgent)                *)
(*          fmt        about to call run(slideFormatterAgent)              *)
(*          val        about to call run(slideValidatorAgent)              *)
(*          returned   the pipeline returned formattedResult.finalOutput   *)
(*          undefined  the while loop ended and the function returned      *)
(*                     without a value                                     *)
(*          threw      the pipeline rethrew from its catch block           *)
(***************************************************************************)
\* where the pipeline stands after the loop decided how to go on
stepAfter(exit) ==
    IF exit = "retry" THEN "gen" ELSE IF exit = "throw" THEN "threw" ELSE "undefined"

\* the for loop enters its body and calls generateSlideWithPipeline: attempt = 0
BeginSlide ==
    /\ pc = "pipeline"
    /\ step = "loop"
    /\ idx < Len(slideGroups)
    /\ attempt' = 0
    /\ hist' = <<>>
    /\ genCalls' = 0
    /\ step' = stepAfter(loopExit(0))
    /\ UNCHANGED <<fnVars, pc, exitCode, err, opts, gitVars, slideGroups, idx, slides,
                   previousSlides, maResult, agentCalled, rawCalls, outVars>>

\* an attempt ended in the catch block
AttemptThrew ==
    /\ attempt' = afterCatch(attempt).attempt
    /\ step' = stepAfter(afterCatch(attempt).exit)
    /\ hist' = Append(hist, "threw")

ContentAgentCall ==
    /\ pc = "pipeline"
    /\ step = "gen"
    /\ agentCalled' = TRUE
    /\ genCalls' = genCalls + 1
    /\ \E ok \in BOOLEAN :
         IF ok THEN step' = "fmt" /\ UNCHANGED <<attempt, hist>>
         ELSE AttemptThrew
    /\ UNCHANGED <<fnVars, pc, exitCode, err, opts, gitVars, slideGroups, idx, slides,
                   previousSlides, maResult, rawCalls, outVars>>

FormatterAgentCall ==
    /\ pc = "pipeline"
    /\ step = "fmt"
    /\ agentCalled' = TRUE
    /\ \E ok \in BOOLEAN :
         IF ok THEN step' = "val" /\ UNCHANGED <<attempt, hist>>
         ELSE AttemptThrew
    /\ UNCHANGED <<fnVars, pc, exitCode, err, opts, gitVars, slideGroups, idx, slides,
                   previousSlides, genCalls, maResult, rawCalls, outVars>>

ValidatorAgentCall ==
    /\ pc = "pipeline"
    /\ step = "val"
    /\ agentCalled' = TRUE
    /\ \E outcome \in {"valid", "invalid", "throws"} :
         IF outcome = "valid"
         THEN step' = "returned" /\ UNCHANGED <<attempt, hist>>
         ELSE IF outcome = "invalid"
         THEN /\ attempt' = afterInvalid(attempt).attempt
              /\ step' = stepAfter(afterInvalid(attempt).exit)
              /\ hist' = Append(hist, "invalid")
         ELSE AttemptThrew
    /\ UNCHANGED <<fnVars, pc, exitCode, err, opts, gitVars, slideGroups, idx, slides,
                   previousSlides, genCalls, maResult, rawCalls, outVars>>

\* the slides list after the try/catch around the pipeline call, given what the
\* call did: slides.push(slide) comes before slide.title is read, so an undefined
\* result is pushed and the TypeError then adds the fallback slide as well
slidesAfter(list, result, slideGroup, i, range) ==
    IF result = "returned" THEN Append(list, agentSlide(slideGroup, i))
    ELSE IF result = "undefined"
    THEN Append(Append(list, undefinedSlide(slideGroup, i)), fallbackSlide(slideGroup, i, range))
    ELSE Append(list, fallbackSlide(slideGroup, i, range))

\* mutant of ResolveSlide: the deck so far is written to slides.md after every
\* segment
ResolveSlideWritesDeck ==
    /\ pc = "pipeline"
    /\ step \in {"returned", "undefined", "threw"}
    /\ slides' = slidesAfter(slides, step, slideGroups[idx + 1], idx, commits)
    /\ previousSlides' = IF step = "returned"
                         THEN pushPrevious(previousSlides, agentSlide(slideGroups[idx + 1], idx))
                         ELSE previousSlides
    /\ idx' = idx + 1
    /\ step' = "loop"
    /\ outFile' = [kind |-> "multi", slides |-> slides']
    /\ UNCHANGED <<fnVars, pc, exitCode, err, opts, gitVars, slideGroups, attempt, hist, genCalls,
                   maResult, agentCalled, rawCalls, slideContent>>

\* the rest of the loop body once the pipeline call has settled, and i++
ResolveSlide ==
    /\ pc = "pipeline"
    /\ step \in {"returned", "undefined", "threw"}
    /\ slides' = slidesAfter(slides, step, slideGroups[idx + 1], idx, commits)
    /\ previousSlides' = IF step = "returned"
                         THEN pushPrevious(previousSlides, agentSlide(slideGroups[idx + 1], idx))
                         ELSE previousSlides
    /\ idx' = idx + 1
    /\ step' = "loop"
    /\ UNCHANGED <<fnVars, pc, exitCode, err, opts, gitVars, slideGroups, attempt, hist, genCalls,
                   maResult, agentCalled, rawCalls, outVars>>

\* after the loop: the deck is serialised and returned to generateAISlides, whose
\* catch block falls through to the single-agent system when anything threw; the
\* locals of generateSlidesWithMultiAgent are gone once it has returned or thrown
AssembleDeck ==
    /\ pc = "pipeline"
    /\ step = "loop"
    /\ idx >= Len(slideGroups)
    /\ IF convertThrows(slides)
       THEN maResult' = "threw" /\ pc' = "single" /\ UNCHANGED slideContent
       ELSE /\ maResult' = "returned"
            /\ slideContent' = convertSlideDeckToSlidev(slides)
            /\ pc' = "write"
    /\ step' = "idle"
    /\ slideGroups' = <<>>
    /\ idx' = 0
    /\ attempt' = 0
    /\ slides' = <<>>
    /\ previousSlides' = <<>>
    /\ hist' = <<>>
    /\ genCalls' = 0
    /\ UNCHANGED <<fnVars, exitCode, err, opts, gitVars, agentCalled, rawCalls, outFile>>

(***************************************************************************)
(* generateAISlides: the single-agent system.                              *)
(***************************************************************************)
SingleAgentCall ==
    /\ pc = "single"
    /\ agentCalled' = TRUE
    /\ \E outcome \in SingleOutcomes :
         LET deck == singleAgentResult(outcome, commits)
         IN  /\ rawCalls' = IF outcome = "json" THEN rawCalls ELSE rawCalls + 1
             /\ IF deck.kind = "threw"
                THEN Exit1("generate") /\ UNCHANGED slideContent
                ELSE slideContent' = deck /\ pc' = "write" /\ UNCHANGED <<exitCode, err>>
    /\ UNCHANGED <<fnVars, opts, gitVars, pipeVars, outFile>>

(***************************************************************************)
(* createSlidevPresentation: mkdir and writeFile of slides.md.             *)
(***************************************************************************)
CreatePresentation ==
    /\ pc = "write"
    /\ \E written \in BOOLEAN :
         IF written
         THEN outFile' = slideContent /\ pc' = "done" /\ exitCode' = 0 /\ UNCHANGED err
         ELSE Exit1("write") /\ UNCHANGED outFile
    /\ UNCHANGED <<fnVars, opts, gitVars, pipeVars, agentCalled, rawCalls, slideContent>>

Next ==
    \/ CliAction
    \/ GetRecentCommits
    \/ SelectStartingCommit
    \/ HistoryRewritten
    \/ GetCommitsFromPoint
    \/ GenerateRaw
    \/ GenerateAI
    \/ BeginSlide
    \/ ContentAgentCall
    \/ FormatterAgentCall
    \/ ValidatorAgentCall
    \/ ResolveSlide
    \/ AssembleDeck
    \/ SingleAgentCall
    \/ CreatePresentation

Spec == Init /\ [][Next]_vars

(***************************************************************************)
(* The run under an external interrupt.  Before autoStartSlidev the program *)
(* installs no SIGINT handler: the interrupt ends the process wherever it   *)
(* stands, and what the run leaves behind is what it has written so far.    *)
(* During createSlidevPresentation the file may not exist yet, be written   *)
(* in part, or be complete.                                                 *)
(***************************************************************************)
Interrupt ==
    /\ pc \in {"cli", "run", "select", "range", "generate", "pipeline", "single", "write"}
    /\ pc' = "done"
    /\ exitCode' = 130
    /\ err' = "interrupted"
    /\ IF pc = "write"
       THEN outFile' \in {NoContent, [kind |-> "truncated", slides |-> <<>>], slideContent}
       ELSE UNCHANGED outFile
    /\ UNCHANGED <<fnVars, opts, gitVars, pipeVars, agentCalled, rawCalls, slideContent>>

InterruptNext == Next \/ Interrupt

InterruptSpec == Init /\ [][InterruptNext]_vars

(***************************************************************************)
(* The planner on its own: every range of 1..MaxPlanN commits is planned.  *)
(***************************************************************************)
PlanRanges ==
    {[i \in 1..(b - a + 1) |-> [hash |-> b - i + 1]] : <<a, b>> \in
        {r \in (1..MaxPlanN) \X (1..MaxPlanN) : r[1] <= r[2]}}

PlanInit ==
    /\ pc = "plan"
    /\ opts = [skipAi |-> FALSE, legacyAgent |-> FALSE, apiKey |-> TRUE]
    /\ log = <<>>
    /\ commits \in PlanRanges
    /\ arg = NoArg
    /\ ret = NoResult
    /\ Blank

PlanSegments ==
    /\ pc = "plan"
    /\ slideGroups = <<>>
    /\ slideGroups' = planSlideGroups(commits)
    /\ UNCHANGED <<fnVars, pc, exitCode, err, opts, gitVars, idx, step, attempt, slides,
                   previousSlides, hist, genCalls, maResult, agentCalled, rawCalls, outVars>>

PlanNext == PlanSegments

PlanSpec == PlanInit /\ [][PlanNext]_vars

(***************************************************************************)
(* categorizeCommit on its own: every message of ClassifyMessages with      *)
(* every list of at most MaxFiles file changes.                             *)
(***************************************************************************)
M_fixX == <<"f", "i", "x", ":", " ", "x">>
M_FixUpper == <<"F", "i", "x", " ", "c", "r", "a", "s", "h">>
M_FEAT == <<"F", "E", "A", "T", ":", " ", "l", "o", "g", "i", "n">>
M_docsZ == <<"d", "o", "c", "s", ":", " ", "z">>
M_testT == <<"t", "e", "s", "t", ":", " ", "t">>
M_Refactor == <<"R", "e", "f", "a", "c", "t", "o", "r", " ", "c", "o", "r", "e">>
M_update == <<"u", "p", "d", "a", "t", "e">>
M_fixture == <<"f", "i", "x", "t", "u", "r", "e", " ", "d", "a", "t", "a">>
M_addTest == <<"a", "d", "d", " ", "t", "e", "s", "t">>

ClassifyMessages ==
    {M_fixX, M_FixUpper, M_FEAT, M_docsZ, M_testT, M_Refactor, M_update, M_fixture, M_addTest}

P_md == <<"a", ".", "m", "d">>
P_js == <<"a", ".", "j", "s">>
P_json == <<"a", ".", "j", "s", "o", "n">>
P_testjs == <<"x", ".", "t", "e", "s", "t", ".", "j", "s">>
P_testsPy == <<"t", "e", "s", "t", "s", "/", "a", ".", "p", "y">>
P_README == <<"R", "E", "A", "D", "M", "E">>
P_Makefile == <<"M", "a", "k", "e", "f", "i", "l", "e">>

ClassifyPaths == {P_md, P_js, P_json, P_testjs, P_testsPy, P_README, P_Makefile}

\* what parseFileChanges pushes for a modified file
fileChange(path) == [status |-> <<"M">>, file |-> path, type |-> getFileType(path)]

ClassifyFileChanges ==
    UNION {[1..n -> {fileChange(p) : p \in ClassifyPaths}] : n \in 0..MaxFiles}

ClassifyInit ==
    /\ pc = "classify"
    /\ opts = [skipAi |-> TRUE, legacyAgent |-> FALSE, apiKey |-> FALSE]
    /\ log = <<>>
    /\ commits = <<>>
    /\ arg \in [fn : {"categorizeCommit"}, message : ClassifyMessages,
                fileChanges : ClassifyFileChanges]
    /\ ret = NoResult
    /\ Blank

Classify ==
    /\ pc = "classify"
    /\ ret = NoResult
    /\ ret' = [kind |-> "returned", value |-> categorizeCommit(arg.message, arg.fileChanges)]
    /\ UNCHANGED <<pc, exitCode, err, opts, gitVars, pipeVars, agentCalled, rawCalls,
                   outVars, arg>>

ClassifyNext == Classify

ClassifySpec == ClassifyInit /\ [][ClassifyNext]_vars


(***************************************************************************)
(* generateRawSlides on its own: every range of 1..MaxRawLen commits drawn  *)
(* from RawPool, enriched as getCommitsFromPoint enriches it.               *)
(***************************************************************************)
PoolDocs ==
    [message |-> <<"d", "o", "c", "s", ":", " ", "u", "p", "d", "a", "t", "e", " ", "r", "e", "a", "d", "m", "e">>,
     author_name |-> "ann",
     show |-> <<"A", "u", "t", "h", "o", "r", ":", " ", "a", "n", "n", "\n", "\n", "M", "\t", "R", "E", "A", "D", "M", "E", ".", "m", "d", "\n">>,
     files |-> 1, insertions |-> 3, deletions |-> 1]

PoolChore ==
    [message |-> <<"u", "p", "d", "a", "t", "e", " ", "b", "u", "i", "l", "d">>,
     author_name |-> "bob",
     show |-> <<"A", "u", "t", "h", "o", "r", ":", " ", "b", "o", "b", "\n", "\n", "M", "\t", "p", "a", "c", "k", "a", "g", "e", ".", "j", "s", "o", "n", "\n">>,
     files |-> 1, insertions |-> 1, deletions |-> 1]

RawPool == {PoolFeat, PoolFix, PoolDocs, PoolChore}

RawHistories ==
    UNION {{[i \in 1..len |-> LogEntry(ps[i], i, len)] : ps \in [1..len -> RawPool]}
           : len \in 1..MaxRawLen}

\* the state of run() after getCommitsFromPoint(oldest commit of the log)
RawInit ==
    /\ pc = "raw"
    /\ opts = [skipAi |-> TRUE, legacyAgent |-> FALSE, apiKey |-> FALSE]
    /\ log \in RawHistories
    /\ commits = enhancedCommits(selectedCommits(log, Len(log) - 1))
    /\ arg = NoArg
    /\ ret = NoResult
    /\ Blank

RenderRaw ==
    /\ pc = "raw"
    /\ slideContent = NoContent
    /\ slideContent' = generateRawSlides(commits)
    /\ rawCalls' = rawCalls + 1
    /\ UNCHANGED <<fnVars, pc, exitCode, err, opts, gitVars, pipeVars, agentCalled, outFile>>

RawNext == RenderRaw

RawSpec == RawInit /\ [][RawNext]_vars

(***************************************************************************)
(* sanitizeContent of convertSlideDeckToSlidev (multiAgent.js), as the      *)
(* chain of String.prototype.replace calls it is.                           *)
(***************************************************************************)
\* String.prototype.replace(/pat/g, rep) for a literal pattern: leftmost matches,
\* not overlapping, the scan going on after each match
RECURSIVE ReplaceFrom(_, _, _, _)
ReplaceFrom(s, pat, rep, i) ==
    IF i > Len(s) THEN <<>>
    ELSE IF i + Len(pat) - 1 <= Len(s) /\ SubSeq(s, i, i + Len(pat) - 1) = pat
         THEN rep \o ReplaceFrom(s, pat, rep, i + Len(pat))
         ELSE <<s[i]>> \o ReplaceFrom(s, pat, rep, i + 1)

ReplaceAll(s, pat, rep) == ReplaceFrom(s, pat, rep, 1)

\* [\u0000-\u001f\u007f-\u009f], as far as the model has such characters
IsControl(c) == c \in {"\n", "\t"}

\* [a-zA-Z]
IsLetter(c) ==
    \E i \in 1..Len(LowerChars) : LowerChars[i] = c \/ UpperChars[i] = c

\* [a-zA-Z0-9]
IsAlnum(c) == IsLetter(c) \/ c \in {"0", "1", "2", "3", "4", "5", "6", "7", "8", "9"}

\* the last index of the longest run of [a-zA-Z0-9] that holds index j
RECURSIVE RunEnd(_, _)
RunEnd(s, j) == IF j + 1 <= Len(s) /\ IsAlnum(s[j + 1]) THEN RunEnd(s, j + 1) ELSE j

\* \*[a-zA-Z][a-zA-Z0-9]* matches at index i
AliasAt(s, i) == s[i] = "*" /\ i + 1 <= Len(s) /\ IsLetter(s[i + 1])

\* .replace(/\*[a-zA-Z][a-zA-Z0-9]*\s/g, '**'): the greedy run must be followed
\* by a whitespace character, a shorter run is followed by a run character
RECURSIVE ReplaceAliasSpaceFrom(_, _)
ReplaceAliasSpaceFrom(s, i) ==
    IF i > Len(s) THEN <<>>
    ELSE IF AliasAt(s, i) /\ RunEnd(s, i + 1) + 1 <= Len(s) /\ IsSpace(s[RunEnd(s, i + 1) + 1])
         THEN <<"*", "*">> \o ReplaceAliasSpaceFrom(s, RunEnd(s, i + 1) + 2)
         ELSE <<s[i]>> \o ReplaceAliasSpaceFrom(s, i + 1)

\* .replace(/\*[a-zA-Z][a-zA-Z0-9]*$/g, '**'): without the m flag $ is the end of
\* the string
ReplaceAliasEnd(s) ==
    IF \E i \in 1..Len(s) : AliasAt(s, i) /\ RunEnd(s, i + 1) = Len(s)
    THEN LET i == CHOOSE k \in 1..Len(s) : AliasAt(s, k) /\ RunEnd(s, k + 1) = Len(s)
         IN  SubSeq(s, 1, i - 1) \o <<"*", "*">>
    ELSE s

\* String.prototype.trim
RECURSIVE TrimStart(_)
TrimStart(s) == IF s # <<>> /\ IsSpace(Head(s)) THEN TrimStart(Tail(s)) ELSE s

RECURSIVE TrimEnd(_)
TrimEnd(s) ==
    IF s # <<>> /\ IsSpace(s[Len(s)]) THEN TrimEnd(SubSeq(s, 1, Len(s) - 1)) ELSE s

Trim(s) == TrimEnd(TrimStart(s))

S_lt == <<"&", "l", "t", ";">>
S_gt == <<"&", "g", "t", ";">>
S_amp == <<"&", "a", "m", "p", ";">>
S_mergeKey == <<"<", "<", ":">>

\* .replace(/<<:/g, '')
removeMergeKeys(s) == ReplaceAll(s, S_mergeKey, <<>>)

\* .replace(/[\u0000-\u001f\u007f-\u009f]/g, '')
removeControl(s) == SelectSeq(s, LAMBDA c : ~IsControl(c))

\* the three entity replacements, in the order of the source
decodeEntities(s) ==
    ReplaceAll(ReplaceAll(ReplaceAll(s, S_lt, <<"<">>), S_gt, <<">">>), S_amp, <<"&">>)

sanitizeContent(content) ==
    IF content = <<>> THEN <<>>
    ELSE Trim(ReplaceAliasEnd(ReplaceAliasSpaceFrom(
             removeControl(removeMergeKeys(decodeEntities(content))), 1)))

(***************************************************************************)
(* sanitizeContent on its own: every content made of at most MaxTokens      *)
(* tokens, sanitised and then sanitised again.                              *)
(***************************************************************************)
SanitTokens ==
    {S_lt, S_gt, S_amp, <<"l", "t", ";">>, <<"<", "<">>, <<":">>, S_mergeKey,
     <<"*">>, <<"*", "*">>, <<"a">>, <<"a", " ", "a">>, <<"b", "1">>, <<" ">>, <<"\n">>}

RECURSIVE Flatten(_)
Flatten(parts) == IF parts = <<>> THEN <<>> ELSE Head(parts) \o Flatten(Tail(parts))

SanitContents ==
    UNION {{Flatten(ts) : ts \in [1..n -> SanitTokens]} : n \in 0..MaxTokens}

SanitInit ==
    /\ pc = "sanitize"
    /\ opts = [skipAi |-> FALSE, legacyAgent |-> FALSE, apiKey |-> TRUE]
    /\ log = <<>>
    /\ commits = <<>>
    /\ arg \in [fn : {"sanitizeContent"}, content : SanitContents, pass : {1}]
    /\ ret = NoResult
    /\ Blank

\* sanitizeContent(content)
Sanitize ==
    /\ pc = "sanitize"
    /\ ret = NoResult
    /\ ret' = [kind |-> "returned", value |-> sanitizeContent(arg.content)]
    /\ UNCHANGED <<pc, exitCode, err, opts, gitVars, pipeVars, agentCalled, rawCalls,
                   outVars, arg>>

\* sanitizeContent applied to what it has returned
SanitizeAgain ==
    /\ pc = "sanitize"
    /\ ret.kind = "returned"
    /\ arg.pass = 1
    /\ arg' = [fn |-> "sanitizeContent", content |-> ret.value, pass |-> 2]
    /\ ret' = [kind |-> "returned", value |-> sanitizeContent(ret.value)]
    /\ UNCHANGED <<pc, exitCode, err, opts, gitVars, pipeVars, agentCalled, rawCalls,
                   outVars>>

SanitNext == Sanitize \/ SanitizeAgain

SanitSpec == SanitInit /\ [][SanitNext]_vars

(***************************************************************************)
(* bin/cli.js: commander's parse of the command line and                    *)
(* processPromptOptions.  A key that is not set holds "undefined".          *)
(***************************************************************************)
OptionKeys == {"style", "theme", "output", "focus"}

\* the default values of the .option(...) declarations; focus has none
optionDefaults ==
    [style |-> "default", theme |-> "default", output |-> "./slides", focus |-> "undefined"]

\* the options object commander hands to the action: the value given on the
\* command line, the declared default otherwise
parsedOptions(cli) ==
    [k \in OptionKeys |-> IF cli[k] # "undefined" THEN cli[k] ELSE optionDefaults[k]]

\* isValidStyle
availableStyles == {"default", "executive", "technical", "retrospective"}

\* Object.keys(config).forEach(key => { if (options[key] === undefined) options[key] = config[key] })
mergeConfig(options, config) ==
    [k \in OptionKeys |-> IF options[k] = "undefined" THEN config[k] ELSE options[k]]

\* options.style = options.style || config.style || 'default'
styleFromConfig(options, config) ==
    [options EXCEPT !["style"] =
        IF options["style"] # "undefined" THEN options["style"]
        ELSE IF config["style"] # "undefined" THEN config["style"]
        ELSE "default"]

\* steps 3 to 5: the style check and promptSource
validateStyle(options) ==
    IF options["style"] # "undefined" /\ options["style"] \notin availableStyles
    THEN [kind |-> "exit1"]
    ELSE [kind |-> "returned", options |-> options,
          promptSource |-> IF options["style"] # "default" THEN "style" ELSE "default"]

processPromptOptions(options, prompt, config) ==
    IF prompt # "undefined"
    THEN IF prompt = "loadable"
         THEN [kind |-> "returned", options |-> options, promptSource |-> "custom-file"]
         ELSE [kind |-> "exit1"]
    ELSE IF config.file = "none" THEN validateStyle(options)
    ELSE IF config.file = "unloadable" THEN [kind |-> "exit1"]
    ELSE IF config["customPrompt"]
         THEN [kind |-> "returned", options |-> mergeConfig(options, config),
               promptSource |-> "config-file"]
         ELSE validateStyle(styleFromConfig(mergeConfig(options, config), config))

\* what the user can type, and what a configuration file can hold
CommandLines ==
    [style : {"undefined", "technical"}, theme : {"undefined", "apple"},
     output : {"undefined", "./cli-out"}, focus : {"undefined", "technical"}]

\* file: no --config, a module that cannot be imported, or one that can
ConfigFiles ==
    [file : {"none", "unloadable"}, style : {"undefined"}, theme : {"undefined"},
     output : {"undefined"}, focus : {"undefined"}, customPrompt : {FALSE}]
    \cup
    [file : {"loaded"},
     style : {"undefined", "executive", "bogus"}, theme : {"undefined", "seriph"},
     output : {"undefined", "./weekly-reports"}, focus : {"undefined", "business"},
     customPrompt : BOOLEAN]

OptionsInit ==
    /\ pc = "options"
    /\ opts = [skipAi |-> TRUE, legacyAgent |-> FALSE, apiKey |-> FALSE]
    /\ log = <<>>
    /\ commits = <<>>
    /\ arg \in [fn : {"processPromptOptions"}, cli : CommandLines,
                prompt : {"undefined", "loadable", "unloadable"}, config : ConfigFiles]
    /\ ret = NoResult
    /\ Blank

ProcessPromptOptions ==
    /\ pc = "options"
    /\ ret = NoResult
    /\ ret' = processPromptOptions(parsedOptions(arg.cli), arg.prompt, arg.config)
    /\ UNCHANGED <<pc, exitCode, err, opts, gitVars, pipeVars, agentCalled, rawCalls,
                   outVars, arg>>

OptionsNext == ProcessPromptOptions

OptionsSpec == OptionsInit /\ [][OptionsNext]_vars

(***************************************************************************)
(* getCommitsFromPoint: the map callbacks under Promise.all.  Every         *)
(* callback is started by map and stands at its first await; the git       *)
(* answers arrive in any order.                                             *)
(*   stage[i] = diff   callback i awaits this.git.diffSummary               *)
(*              show   callback i awaits this.git.show                      *)
(*              done   callback i has returned its enhanced commit          *)
(***************************************************************************)
EnrichHistories ==
    UNION {{[i \in 1..len |-> LogEntry(ps[i], i, len)] : ps \in [1..len -> CommitPool]}
           : len \in 1..MaxEnrichLen}

\* mutant of promiseAllValues: the values collected as the callbacks complete
promiseAllValuesInCompletionOrder(settled, order) ==
    [k \in 1..Len(order) |-> settled[order[k]]]

\* Promise.all resolves with the values at the positions of their promises
promiseAllValues(settled, order) == [i \in 1..Len(order) |-> settled[i]]

EnrichInit ==
    /\ pc = "enrich"
    /\ opts = [skipAi |-> TRUE, legacyAgent |-> FALSE, apiKey |-> FALSE]
    /\ log \in EnrichHistories
    /\ commits = <<>>
    /\ \E k \in 1..Len(log) :
          arg = [fn |-> "getCommitsFromPoint", fromHash |-> log[k].hash,
                 selectedCommits |-> selectedCommits(log, findIndexByHash(log, log[k].hash))]
    /\ ret = [kind |-> "pending",
              stage |-> [i \in 1..Len(arg.selectedCommits) |-> "diff"],
              settled |-> [i \in 1..Len(arg.selectedCommits) |-> NoResult],
              order |-> <<>>]
    /\ Blank

\* callback i returns: from the try block after show, or from the catch block
settle(i) ==
    [ret EXCEPT !.stage[i] = "done",
                !.settled[i] = enhanceCommit(arg.selectedCommits[i]),
                !.order = Append(ret.order, i)]

\* the diffSummary of commit i is answered: it rejects for a commit without parent
DiffSummaryAnswered ==
    /\ pc = "enrich"
    /\ ret.kind = "pending"
    /\ \E i \in 1..Len(arg.selectedCommits) :
          /\ ret.stage[i] = "diff"
          /\ ret' = IF arg.selectedCommits[i].root THEN settle(i)
                    ELSE [ret EXCEPT !.stage[i] = "show"]
    /\ UNCHANGED <<pc, exitCode, err, opts, gitVars, pipeVars, agentCalled, rawCalls,
                   outVars, arg>>

\* the show of commit i is answered
ShowAnswered ==
    /\ pc = "enrich"
    /\ ret.kind = "pending"
    /\ \E i \in 1..Len(arg.selectedCommits) :
          /\ ret.stage[i] = "show"
          /\ ret' = settle(i)
    /\ UNCHANGED <<pc, exitCode, err, opts, gitVars, pipeVars, agentCalled, rawCalls,
                   outVars, arg>>

\* every callback has returned: Promise.all resolves and the method returns
ReturnEnhancedCommits ==
    /\ pc = "enrich"
    /\ ret.kind = "pending"
    /\ \A i \in 1..Len(arg.selectedCommits) : ret.stage[i] = "done"
    /\ commits' = promiseAllValues(ret.settled, ret.order)
    /\ ret' = [kind |-> "returned", order |-> ret.order]
    /\ UNCHANGED <<pc, exitCode, err, opts, log, recent, selected, lastCommits, pipeVars,
                   agentCalled, rawCalls, outVars, arg>>

EnrichNext == DiffSummaryAnswered \/ ShowAnswered \/ ReturnEnhancedCommits

EnrichSpec == EnrichInit /\ [][EnrichNext]_vars

(***************************************************************************)
(* Properties.                                                             *)
(***************************************************************************)
AllInvalid == <<"invalid", "invalid", "invalid">>

\* the entries of the slides list that belong to segment i
EntriesOf(list, i) == {k \in 1..Len(list) : list[k].index = i}

\* C1: a segment whose formatted slide fails validation on every attempt is
\* resolved after exactly 3 generation attempts, and the slides list then holds
\* exactly one entry for that segment, the role-specific placeholder.
C1_ExhaustedSegmentHasOnePlaceholder ==
    (pc = "pipeline" /\ step = "loop" /\ idx >= 1 /\ hist = AllInvalid) =>
        /\ genCalls = 3
        /\ Cardinality(EntriesOf(slides, idx - 1)) = 1
        /\ \A k \in EntriesOf(slides, idx - 1) :
               slides[k] = fallbackSlide(slideGroups[idx], idx - 1, commits)

\* C2: whatever the per-attempt outcomes of any segment are,
\* generateSlidesWithMultiAgent returns a serialised deck with one slide per
\* planned segment; it never throws because of a segment's failure.
C2_MultiAgentAlwaysReturnsDeck ==
    /\ maResult # "threw"
    /\ maResult = "returned" =>
           /\ slideContent.kind = "multi"
           /\ Len(slideContent.slides) = totalSlides(Len(commits))

\* C3: for any mix of exceptions and validation failures the content agent is
\* called at most 3 times for one segment, no call is pending once the attempts
\* are used up, and a failed attempt is followed at once by the next generation
\* call (the calls made equal the attempts started).
C3_AtMostThreeGenerationCalls ==
    pc = "pipeline" =>
        /\ genCalls <= 3
        /\ step \in {"gen", "fmt", "val"} => attempt < 3
        /\ step = "gen" => genCalls = attempt
        /\ step \in {"fmt", "val"} => genCalls = attempt + 1
        /\ step \in {"returned", "undefined", "threw"} => genCalls = Len(hist) + (IF step = "returned" THEN 1 ELSE 0)

C3_Witness ==
    pc = "pipeline" /\ step = "threw" /\ genCalls = 3 /\ hist = <<"invalid", "threw", "threw">>

\* C4: for every non-empty commit range, a range of one commit included,
\* generateRawSlides returns a deck of at least 3 slides and does not throw.
C4_RawDeckHasAtLeastThreeSlides ==
    /\ err # "generate"
    /\ slideContent.kind = "raw" => Len(slideContent.slides) >= 3
    /\ Len(commits) >= 1 =>
           /\ generateRawSlides(commits).kind = "raw"
           /\ Len(generateRawSlides(commits).slides) >= 3

C4_Witness ==
    slideContent.kind = "raw" /\ Len(commits) = 1 /\ rawCalls = 1 /\ ~agentCalled

\* C5: with AI enabled, generateAISlides ends by returning slide markup whatever
\* the capability calls do: no capability failure leaves it as an error, and its
\* loops are bounded.
C5_AISlidesAlwaysReturnMarkup ==
    ~opts.skipAi =>
        /\ err # "generate"
        /\ pc = "write" => slideContent.kind \in {"multi", "single", "raw"}
        /\ pc = "pipeline" => idx <= Len(slideGroups) /\ attempt <= 4

C5_Witness ==
    ~opts.skipAi /\ pc = "write" /\ maResult = "threw" /\ slideContent.kind = "raw"

\* C6: with skipAi set, run() makes no agent call and never enters the per-segment
\* orchestrator; the deck is the result of exactly one generateRawSlides call.
C6_SkipAiMakesNoAgentCall ==
    opts.skipAi =>
        /\ ~agentCalled
        /\ pc \notin {"pipeline", "single"}
        /\ maResult = "none"
        /\ rawCalls <= 1
        /\ (pc = "write" \/ outFile # NoContent) => rawCalls = 1 /\ slideContent.kind = "raw"

C6_Witness ==
    opts.skipAi /\ pc = "done" /\ outFile.kind = "raw" /\ rawCalls = 1

\* C7: when the selected hash is not in the history that getCommitsFromPoint
\* reads, the call fails with the not-found error, the process exits with code 1
\* and no slides file is written (nothing is generated either).
C7_AbsentHashExitsWithoutOutput ==
    (/\ pc \notin {"cli", "run", "select", "range"}
     /\ selected # 0
     /\ err # "rangeRead"
     /\ \A i \in 1..Len(log) : log[i].hash # selected) =>
        /\ pc = "done"
        /\ err = "notFound"
        /\ exitCode = 1
        /\ outFile = NoContent
        /\ commits = <<>>
        /\ rawCalls = 0
        /\ ~agentCalled

C7_Witness ==
    pc = "done" /\ err = "notFound" /\ exitCode = 1 /\ outFile = NoContent

\* C8: with fromHash at index k of the log (0 = head), getCommitsFromPoint returns
\* exactly the k+1 commits from head to fromHash, none older than fromHash; a
\* returned range is never empty.
C8_RangeIsHeadToSelected ==
    pc \in {"generate", "pipeline", "single", "write"} =>
        /\ Len(commits) >= 1
        /\ \E k \in 0..(Len(log) - 1) :
              /\ log[k + 1].hash = selected
              /\ Len(commits) = k + 1
              /\ \A i \in 1..(k + 1) : commits[i].hash = log[i].hash
              /\ commits[k + 1].hash = selected
        /\ \A i \in 1..Len(commits) : commits[i].hash >= selected

C8_Witness ==
    pc = "generate" /\ Len(commits) = 2 /\ commits[2].hash = selected

RECURSIVE ConcatCommits(_)
ConcatCommits(groups) ==
    IF groups = <<>> THEN <<>> ELSE Head(groups).commits \o ConcatCommits(Tail(groups))

ContentGroups == SubSeq(slideGroups, 2, Len(slideGroups) - 1)

\* C9: for every range of n >= 1 commits the slices of the content segments,
\* concatenated in segment order, are the input range: contiguous, no commit
\* lost, none twice.
C9_ContentSlicesPartitionRange ==
    slideGroups # <<>> =>
        /\ ConcatCommits(ContentGroups) = commits
        /\ \A i, j \in 1..Len(ConcatCommits(ContentGroups)) :
               i # j => ConcatCommits(ContentGroups)[i] # ConcatCommits(ContentGroups)[j]

C9_Witness ==
    /\ pc = "plan"
    /\ Len(commits) = 7
    /\ Len(slideGroups) = 5
    /\ Len(slideGroups[4].commits) = 1

\* the segment count the specification gives: clamp(ceil(n / 3), 5, 8)
ExpectedSegments(n) ==
    LET c == (n + 2) \div 3
    IN  IF c < 5 THEN 5 ELSE IF c > 8 THEN 8 ELSE c

\* C10: for every n >= 1 the planner makes clamp(ceil(n/3), 5, 8) segments: a
\* title first and a conclusion last, both without commits, content segments in
\* between; n = 1 gives 5 segments, exactly one of them holding the commit, and
\* n = 24 gives 8.
C10_SegmentCountAndRoles ==
    slideGroups # <<>> =>
        LET n == Len(commits)
            total == Len(slideGroups)
        IN  /\ total = ExpectedSegments(n)
            /\ slideGroups[1].type = "title" /\ slideGroups[1].commits = <<>>
            /\ slideGroups[total].type = "conclusion" /\ slideGroups[total].commits = <<>>
            /\ \A k \in 2..(total - 1) : slideGroups[k].type = "content"
            /\ n = 1 =>
                  /\ total = 5
                  /\ Cardinality({k \in 1..total : slideGroups[k].commits # <<>>}) = 1
                  /\ \E k \in 2..(total - 1) : slideGroups[k].commits = commits
            /\ n = 24 => total = 8

C10_Witness ==
    pc = "plan" /\ Len(commits) = 24 /\ Len(slideGroups) = 8

\* message has the prefix p, letter case ignored
HasPrefix(message, p) ==
    /\ Len(message) >= Len(p)
    /\ \A i \in 1..Len(p) : LowerChar(message[i]) = p[i]

PrefixCategories ==
    <<[prefix |-> S_feat, category |-> "feature"],
      [prefix |-> S_fix, category |-> "bugfix"],
      [prefix |-> S_docs, category |-> "documentation"],
      [prefix |-> S_test, category |-> "testing"],
      [prefix |-> S_refactor, category |-> "refactoring"]>>

\* C11: a message with prefix feat, fix, docs, test or refactor (letter case
\* ignored) gets the category of its prefix whatever the changed files are; in
\* particular "fix: x" with only documentation files is bugfix.
C11_PrefixDominatesFileTypes ==
    (pc = "classify" /\ ret.kind = "returned") =>
        /\ \A k \in 1..Len(PrefixCategories) :
               HasPrefix(arg.message, PrefixCategories[k].prefix) =>
                   ret.value = PrefixCategories[k].category
        /\ (arg.message = M_fixX
            /\ arg.fileChanges # <<>>
            /\ \A i \in 1..Len(arg.fileChanges) : arg.fileChanges[i].type = "documentation")
               => ret.value = "bugfix"

C11_Witness ==
    /\ pc = "classify"
    /\ arg.message = M_fixX
    /\ arg.fileChanges = <<fileChange(P_md), fileChange(P_README)>>
    /\ ret = [kind |-> "returned", value |-> "bugfix"]

\* the sections of a rendered deck
SectionsOf(deck) == {deck.slides[i].section : i \in 1..Len(deck.slides)}

MessagesOf(range) == {range[i].message : i \in 1..Len(range)}

\* C12: the deck of generateRawSlides has a Challenges section if and only if at
\* least one commit of the range is categorised bugfix: the range (feat: add
\* login, fix: crash on logout, docs: update readme) has it, a one-commit range
\* without a bugfix has not.
C12_ChallengesIffBugfix ==
    (pc = "raw" /\ slideContent.kind = "raw") =>
        /\ ("challenges" \in SectionsOf(slideContent))
               <=> (\E i \in 1..Len(commits) : commits[i].changeType = "bugfix")
        /\ (Len(commits) = 3
            /\ MessagesOf(commits) = {PoolFeat.message, PoolFix.message, PoolDocs.message})
               => "challenges" \in SectionsOf(slideContent)
        /\ (Len(commits) = 1 /\ commits[1].message # PoolFix.message)
               => "challenges" \notin SectionsOf(slideContent)

C12_Witness ==
    /\ pc = "raw"
    /\ slideContent.kind = "raw"
    /\ Len(commits) = 3
    /\ MessagesOf(commits) = {PoolFeat.message, PoolFix.message, PoolDocs.message}
    /\ "challenges" \in SectionsOf(slideContent)

\* C13: sanitizeContent is idempotent on its own outputs: applied to a string it
\* has returned, it returns that string unchanged.
C13_SanitizeIdempotent ==
    (pc = "sanitize" /\ arg.pass = 2) => ret.value = arg.content

\* C14: with AI not skipped and OPENAI_API_KEY missing the CLI exits with code 1
\* before any history is read, any capability is called or any file is written;
\* with --skip-ai a missing credential is not an error.
C14_MissingCredentialExitsEarly ==
    /\ (~opts.skipAi /\ ~opts.apiKey /\ pc # "cli") =>
           /\ pc = "done"
           /\ exitCode = 1
           /\ err \in {"notRepo", "options", "noKey"}
           /\ recent = <<>> /\ selected = 0 /\ commits = <<>>
           /\ ~agentCalled /\ rawCalls = 0
           /\ slideContent = NoContent /\ outFile = NoContent
    /\ err = "noKey" => ~opts.skipAi /\ ~opts.apiKey
    /\ (opts.skipAi /\ ~opts.apiKey) => err # "noKey"

C14_Witness ==
    /\ ~opts.skipAi /\ ~opts.apiKey
    /\ pc = "done" /\ exitCode = 1 /\ err = "noKey"
    /\ recent = <<>> /\ outFile = NoContent

\* C15 as stated: a missing credential is not fatal, the run falls back to the
\* deterministic renderer and still ends with a deck.
C15_MissingCredentialNotFatal ==
    ~opts.apiKey =>
        /\ err # "noKey"
        /\ (pc = "done" /\ err = "none" /\ recent # <<>>) => outFile.kind = "raw"

\* C15 amended: a missing credential is fatal unless --skip-ai is set: without
\* --skip-ai the run ends with exit code 1 and no deck; with --skip-ai the run
\* uses the deterministic renderer, and when nothing else fails it ends with the
\* renderer's deck written.
C15_MissingCredentialFatalUnlessSkipAi ==
    (~opts.apiKey /\ pc = "done") =>
        /\ ~opts.skipAi => exitCode = 1 /\ outFile = NoContent /\ slideContent = NoContent
        /\ (opts.skipAi /\ err = "none" /\ recent # <<>>) =>
               exitCode = 0 /\ outFile.kind = "raw" /\ ~agentCalled

C15_Witness ==
    ~opts.apiKey /\ opts.skipAi /\ pc = "done" /\ exitCode = 0 /\ outFile.kind = "raw"

\* a configuration file was loaded by the call
ConfigLoaded ==
    arg.prompt = "undefined" /\ arg.config.file = "loaded"

\* C16: when a configuration file is loaded and the user gave no --style (or
\* --theme, --output) on the command line, the value of the configuration file
\* is the one in effect afterwards; a value given on the command line takes
\* precedence over the configuration file.
C16_ConfigValueUsedUnlessGivenOnCommandLine ==
    (pc = "options" /\ ret.kind = "returned" /\ ConfigLoaded) =>
        \A k \in {"style", "theme", "output"} :
            /\ (arg.cli[k] = "undefined" /\ arg.config[k] # "undefined") =>
                   ret.options[k] = arg.config[k]
            /\ arg.cli[k] # "undefined" => ret.options[k] = arg.cli[k]

\* C17: within one attempt the steps run in the order generate, format,
\* validate: the formatter is called only on the generation result of the same
\* attempt and the validator only on its formatter result; when the generation
\* call throws, neither is called in that attempt, which counts as one failed
\* attempt.
C17_GenerateFormatValidateInOrder ==
    [][/\ step' = "fmt" => (step = "gen" /\ attempt' = attempt /\ hist' = hist /\ idx' = idx)
       /\ step' = "val" => (step = "fmt" /\ attempt' = attempt /\ hist' = hist /\ idx' = idx)
       /\ (step = "gen" /\ step' # "fmt") =>
              /\ hist' = Append(hist, "threw")
              /\ attempt' = attempt + 1
              /\ step' \in {"gen", "threw"}
       /\ step = "gen" => genCalls' = genCalls + 1]_vars

C17_Witness ==
    pc = "pipeline" /\ step = "gen" /\ attempt = 1 /\ genCalls = 1 /\ hist = <<"threw">>

\* the slides of the list that were accepted through validation
AcceptedSlides(list) == SelectSeq(list, LAMBDA sl : sl.kind = "agent")

\* C18: at the start of every segment previousSlides holds at most 2 entries,
\* the digests of the most recent slides accepted through validation among the
\* earlier segments, oldest first; a third accepted slide evicts the oldest and a
\* segment resolved by placeholder adds none.
C18_PreviousSlidesAreLastTwoAccepted ==
    pc = "pipeline" =>
        LET accepted == AcceptedSlides(slides)
            kept     == Min(2, Len(accepted))
        IN  /\ Len(previousSlides) <= 2
            /\ Len(previousSlides) = kept
            /\ \A k \in 1..kept :
                   previousSlides[k].index = accepted[Len(accepted) - kept + k].index

C18_Witness ==
    /\ pc = "pipeline" /\ step = "loop" /\ idx = 4
    /\ slides[3].kind = "fallback"
    /\ previousSlides = <<[index |-> 1], [index |-> 3]>>

C20_EnrichedListKeepsLogOrder ==
    (pc = "enrich" /\ ret.kind = "returned") =>
        /\ Len(commits) = Len(arg.selectedCommits)
        /\ \A i \in 1..Len(commits) :
               /\ commits[i].hash = arg.selectedCommits[i].hash
               /\ commits[i].hash = log[i].hash
               /\ commits[i] = enhanceCommit(log[i])

C20_Witness ==
    /\ pc = "enrich"
    /\ ret.kind = "returned"
    /\ ret.order = <<2, 3, 1>>
    /\ Len(commits) = 3

\* C21: when the diff of a commit of the range cannot be computed (the root
\* commit, which has no parent), getCommitsFromPoint still returns: that commit
\* has stats {0, 0, 0} and no file changes and is categorised from its message,
\* and the other commits carry the stats of their own diff.
C21_UndiffableCommitDegradesToZeroStats ==
    (pc = "enrich" /\ ret.kind = "returned") =>
        /\ Len(commits) = Len(arg.selectedCommits)
        /\ \A i \in 1..Len(commits) :
               IF log[i].root
               THEN /\ commits[i].stats = [files |-> 0, insertions |-> 0, deletions |-> 0]
                    /\ commits[i].fileChanges = <<>>
                    /\ commits[i].message = log[i].message
                    /\ HasPrefix(log[i].message, S_feat) => commits[i].changeType = "feature"
                    /\ HasPrefix(log[i].message, S_fix) => commits[i].changeType = "bugfix"
               ELSE /\ commits[i].stats = [files |-> log[i].files,
                                           insertions |-> log[i].insertions,
                                           deletions |-> log[i].deletions]
                    /\ Len(commits[i].fileChanges) = 1

C21_Witness ==
    /\ pc = "enrich"
    /\ ret.kind = "returned"
    /\ Len(commits) = 2
    /\ log[2].root
    /\ commits[2].stats.files = 0 /\ commits[2].changeType = "feature"
    /\ commits[1].stats.files = 1 /\ commits[1].changeType = "bugfix"

\* the number of commits of content segment j (1 = first content segment)
ContentSize(j) == Len(slideGroups[j + 1].commits)

\* ceil(n / k)
SliceSize(n, k) == (n + k - 1) \div k

\* C22 as stated: for every n >= 1 every content segment except the last
\* receives exactly ceil(n / (totalSlides - 2)) commits, and only the last may
\* receive fewer.
C22_AllButLastSegmentFull ==
    slideGroups # <<>> =>
        LET n == Len(commits)
            k == Len(slideGroups) - 2
        IN  /\ \A j \in 1..(k - 1) : ContentSize(j) = SliceSize(n, k)
            /\ ContentSize(k) <= SliceSize(n, k)

\* C22 amended: for every n >= 2 every content segment except the last receives
\* exactly ceil(n / (totalSlides - 2)) commits and only the last may receive
\* fewer; for n = 1 the first content segment receives the commit and the other
\* two receive none.
C22_AllButLastSegmentFullFromTwoCommits ==
    slideGroups # <<>> =>
        LET n == Len(commits)
            k == Len(slideGroups) - 2
        IN  IF n >= 2
            THEN /\ \A j \in 1..(k - 1) : ContentSize(j) = SliceSize(n, k)
                 /\ ContentSize(k) <= SliceSize(n, k)
            ELSE /\ k = 3
                 /\ ContentSize(1) = 1 /\ ContentSize(2) = 0 /\ ContentSize(3) = 0

C22_Witness ==
    /\ pc = "plan"
    /\ Len(commits) = 17
    /\ Len(slideGroups) = 6
    /\ ContentSize(1) = 5 /\ ContentSize(2) = 5 /\ ContentSize(3) = 5 /\ ContentSize(4) = 2

\* the hashes of the commits of segment g; in a history of the model a commit
\* with a smaller hash is an older commit
HashesOf(g) == {slideGroups[g].commits[i].hash : i \in 1..Len(slideGroups[g].commits)}

\* C23: the planner consumes the range oldest first: the first content segment
\* (early_development) holds the oldest commits of the range returned by
\* getCommitsFromPoint and the last content segment (recent_changes) the newest;
\* no earlier segment holds a commit newer than one of a later segment.
C23_PlannerConsumesOldestFirst ==
    (pc = "pipeline" /\ slideGroups # <<>>) =>
        /\ slideGroups[2].focus = "early_development"
        /\ commits[Len(commits)].hash \in HashesOf(2)
        /\ \A g, h \in 2..(Len(slideGroups) - 1) :
               g < h => \A a \in HashesOf(g) : \A b \in HashesOf(h) : a < b

\* the subject's leading token: the text up to the first colon or space, in
\* lower case
RECURSIVE LeadingToken(_)
LeadingToken(message) ==
    IF message = <<>> \/ Head(message) \in {":", " "} THEN <<>>
    ELSE <<LowerChar(Head(message))>> \o LeadingToken(Tail(message))

\* the file-type fallback: test, else documentation, else configuration, else general
FileTypeFallback(fileChanges) ==
    LET types == {fileChanges[i].type : i \in 1..Len(fileChanges)}
    IN  IF "testing" \in types THEN "testing"
        ELSE IF "documentation" \in types THEN "documentation"
        ELSE IF "configuration" \in types THEN "configuration"
        ELSE "general"

\* C24: a prefix rule applies only when the subject's leading token is one of
\* feat, fix, docs, test, refactor; a message whose leading token is any other
\* word is classified by the file-type fallback.
C24_PrefixRuleNeedsLeadingToken ==
    (pc = "classify" /\ ret.kind = "returned") =>
        IF \E k \in 1..Len(PrefixCategories) :
               LeadingToken(arg.message) = PrefixCategories[k].prefix
        THEN \A k \in 1..Len(PrefixCategories) :
                 LeadingToken(arg.message) = PrefixCategories[k].prefix =>
                     ret.value = PrefixCategories[k].category
        ELSE ret.value = FileTypeFallback(arg.fileChanges)

\* the path of a name-status line: what follows the status letter and the
\* whitespace after it
RECURSIVE SkipWhitespace(_)
SkipWhitespace(text) ==
    IF text # <<>> /\ IsSpace(Head(text)) THEN SkipWhitespace(Tail(text)) ELSE text

PathOfLine(line) == SkipWhitespace(Tail(line))

\* the name-status lines <A|M|D><whitespace><path> of a show output, in order
NameStatusLines(showOutput) ==
    SelectSeq(Split(showOutput, <<"\n">>),
              LAMBDA line : Len(line) >= 2 /\ line[1] \in {"A", "M", "D"} /\ IsSpace(line[2]))

\* C25: for every name-status line <A|M|D><whitespace><path> of the show output
\* parseFileChanges emits one file change whose status is the letter, whose file
\* is <path> and whose type is getFileType(<path>).
C25_FileChangesReflectNameStatusLines ==
    (pc = "enrich" /\ ret.kind = "returned") =>
        \A i \in 1..Len(commits) :
            ~log[i].root =>
                LET lines == NameStatusLines(log[i].show)
                IN  /\ Len(commits[i].fileChanges) = Len(lines)
                    /\ \A k \in 1..Len(lines) :
                           /\ commits[i].fileChanges[k].status = <<lines[k][1]>>
                           /\ commits[i].fileChanges[k].file = PathOfLine(lines[k])
                           /\ commits[i].fileChanges[k].type = getFileType(PathOfLine(lines[k]))

\* text of an emphasis span: words of letters and digits separated by spaces
IsSpanText(text) ==
    /\ text # <<>>
    /\ \A i \in 1..Len(text) : IsAlnum(text[i]) \/ text[i] = " "
    /\ text[1] # " " /\ text[Len(text)] # " "

\* content[i..j] is a paired emphasis span with the marker mark (** or *), not
\* touching another asterisk
IsSpan(content, i, j, mark) ==
    /\ j - i + 1 > 2 * Len(mark)
    /\ SubSeq(content, i, i + Len(mark) - 1) = mark
    /\ SubSeq(content, j - Len(mark) + 1, j) = mark
    /\ IsSpanText(SubSeq(content, i + Len(mark), j - Len(mark)))
    /\ i > 1 => content[i - 1] # "*"
    /\ j < Len(content) => content[j + 1] # "*"

\* C26: sanitizeContent preserves legitimate emphasis markup: every paired bold
\* span **text** and paired italic span *text* of the input, spans of several
\* words included, appears unchanged in the output.
C26_PairedEmphasisPreserved ==
    (pc = "sanitize" /\ ret.kind = "returned") =>
        \A i, j \in 1..Len(arg.content) :
            \A mark \in {<<"*", "*">>, <<"*">>} :
                (i < j /\ IsSpan(arg.content, i, j, mark)) =>
                    Includes(ret.value, SubSeq(arg.content, i, j))

\* text[i] is an asterisk followed by an identifier [a-zA-Z][a-zA-Z0-9]* and
\* then whitespace or the end of the text
BreakingPatternAt(text, i) ==
    /\ text[i] = "*"
    /\ i + 1 <= Len(text)
    /\ IsLetter(text[i + 1])
    /\ \E e \in (i + 1)..Len(text) :
          /\ \A k \in (i + 1)..e : IsAlnum(text[k])
          /\ e = Len(text) \/ IsSpace(text[e + 1])

\* C28: for every input the output of sanitizeContent holds no asterisk that is
\* immediately followed by an identifier and then whitespace or end of string.
C28_OutputFreeOfBreakingPattern ==
    (pc = "sanitize" /\ ret.kind = "returned") =>
        \A i \in 1..Len(ret.value) : ~BreakingPatternAt(ret.value, i)

\* C29: the attempt counter of generateSlideWithPipeline goes up by exactly one
\* for each failed attempt and never exceeds maxRetries (3); when it reaches 3
\* the function throws, so it never returns without a slide record.
C29_AttemptCounterBoundedByMaxRetries ==
    (pc = "pipeline" /\ step \in {"gen", "fmt", "val", "returned", "undefined", "threw"}) =>
        /\ attempt <= 3
        /\ attempt = Len(hist)
        /\ step # "undefined"
        /\ attempt = 3 => step = "threw"

\* line breaks between two visible characters of a text
InnerLineBreaks(text) ==
    {i \in 2..(Len(text) - 1) :
        /\ text[i] = "\n"
        /\ ~IsSpace(text[i - 1]) /\ ~IsSpace(text[i + 1])}

\* C30: serialisation keeps the line structure of a slide body: every line break
\* of the content is still there in what sanitizeContent returns, which
\* convertSlideDeckToSlidev puts into the markup as it is.
C30_LineBreaksPreserved ==
    (pc = "sanitize" /\ ret.kind = "returned") =>
        Cardinality({i \in 1..Len(ret.value) : ret.value[i] = "\n"})
            >= Cardinality(InnerLineBreaks(arg.content))

\* C27: the slides file is written only after every segment is finalized and
\* the deck serialised: while the run is still generating, and on every run
\* that is interrupted or throws before the last segment is finalized, no
\* slides file, whole or partial, has been written.
C27_NoFileBeforeDeckIsComplete ==
    /\ pc \in {"cli", "run", "select", "range", "generate", "pipeline", "single", "write"} =>
           outFile = NoContent
    /\ slideContent = NoContent => outFile = NoContent
    /\ (slideGroups # <<>> \/ step # "idle") => outFile = NoContent
    /\ outFile # NoContent =>
           /\ pc = "done"
           /\ slideContent.kind \in {"multi", "single", "raw"}
           /\ slideContent.kind = "multi" =>
                  /\ maResult = "returned"
                  /\ Len(slideContent.slides) = totalSlides(Len(commits))

C27_Witness ==
    /\ pc = "done" /\ err = "interrupted"
    /\ slideGroups # <<>> /\ idx = 3 /\ step = "val"
    /\ Len(slides) = 3
    /\ outFile = NoContent

====
